---- MODULE Spec2Model ----
(***************************************************************************)
(* The POST /extract handler of src/app.py (extract_text) as a state      *)
(* machine.  One request is followed from its arrival to its response.    *)
(* The remote completion service is the environment: each of its two      *)
(* calls either raises or returns a content value.  The handler runs      *)
(* atomically between two blocking points (arrival, the return of the     *)
(* Step 1 call, the return of the Step 2 call).                           *)
(*                                                                         *)
(* Python strings are sequences of one-character strings.  Python values  *)
(* are records tagged by their type (field t).  A JSON response body is a *)
(* record holding exactly the keys the code puts in it.                   *)
(***************************************************************************)
EXTENDS Integers, Sequences, FiniteSets, TLC

VARIABLES pc, request, image_data, force_extraction, extracted_text,
          license_info, calls, responses

vars == <<pc, request, image_data, force_extraction, extracted_text,
          license_info, calls, responses>>

(***************************************************************************)
(* Bounds of the model.                                                    *)
(***************************************************************************)
\* longest text following the optional data-URL marker in an image string
MaxTail == 3
\* longest Step 2 output in the full request model
MaxSampleLen == 2
\* longest Step 2 output in the parsing model
MaxInfoLen == 6

(***************************************************************************)
(* Python values.                                                          *)
(***************************************************************************)
PyNone == [t |-> "none"]
PyStr(s) == [t |-> "str", s |-> s]
PyBool(b) == [t |-> "bool", b |-> b]
PyNum(n) == [t |-> "num", n |-> n]
PyList(l) == [t |-> "list", l |-> l]
PyDict(d) == [t |-> "dict", d |-> d]
\* a local variable of the handler that has not been assigned yet
Unset == [t |-> "unset"]

\* Python truthiness, as used by `not data` and `not force_extraction`
Truthy(v) ==
    CASE v.t = "none" -> FALSE
      [] v.t = "bool" -> v.b
      [] v.t = "num"  -> v.n # 0
      [] v.t = "str"  -> v.s # <<>>
      [] v.t = "list" -> v.l # <<>>
      [] v.t = "dict" -> DOMAIN v.d # {}
      [] OTHER        -> FALSE

\* dict.get(key, default)
Get(d, key, default) == IF key \in DOMAIN d THEN d[key] ELSE default

(***************************************************************************)
(* String functions of Python used by the handler.                         *)
(***************************************************************************)
Chars(s) == {s[i] : i \in 1..Len(s)}

\* str.startswith
StartsWith(s, p) == Len(s) >= Len(p) /\ SubSeq(s, 1, Len(p)) = p

\* index of the first occurrence of character c in s, 0 when there is none
RECURSIVE FindFrom(_, _, _)
FindFrom(s, c, i) ==
    IF i > Len(s) THEN 0
    ELSE IF s[i] = c THEN i
    ELSE FindFrom(s, c, i + 1)

Find(s, c) == FindFrom(s, c, 1)

\* str.split(c): every occurrence of c separates two parts
RECURSIVE Split(_, _)
Split(s, c) ==
    LET i == Find(s, c)
    IN  IF i = 0 THEN <<s>>
        ELSE <<SubSeq(s, 1, i - 1)>> \o Split(SubSeq(s, i + 1, Len(s)), c)

\* variant: every occurrence of c separates
SplitOnce_everyColon(s, c) == Split(s, c)

\* str.split(c, 1): only the first occurrence of c separates
SplitOnce(s, c) ==
    LET i == Find(s, c)
    IN  IF i = 0 THEN <<s>>
        ELSE <<SubSeq(s, 1, i - 1), SubSeq(s, i + 1, Len(s))>>

\* the characters str.strip() removes
Whitespace == {" ", "\n", "\t", "\r"}

RECURSIVE LStrip(_)
LStrip(s) ==
    IF s # <<>> /\ Head(s) \in Whitespace THEN LStrip(Tail(s)) ELSE s

RECURSIVE RStrip(_)
RStrip(s) ==
    IF s # <<>> /\ s[Len(s)] \in Whitespace
    THEN RStrip(SubSeq(s, 1, Len(s) - 1))
    ELSE s

\* str.strip()
Strip(s) == RStrip(LStrip(s))

(***************************************************************************)
(* Fixed strings of the handler.                                           *)
(***************************************************************************)
\* "NO_LICENSE_DETECTED"
Sentinel ==
    <<"N", "O", "_", "L", "I", "C", "E", "N", "S", "E", "_",
      "D", "E", "T", "E", "C", "T", "E", "D">>

\* "data:image"
DataImagePrefix == <<"d", "a", "t", "a", ":", "i", "m", "a", "g", "e">>

\* the fixed head of the image URL of the Step 1 call, kept as one element
JpegUrlHead == <<"data:image/jpeg;base64,">>

\* the fixed head of the user turn of the Step 2 call, kept as one element
Step2PromptHead == <<"Extract driver's license information from this text:\n\n">>

\* f"data:image/jpeg;base64,{image_data}"
Step1ImageUrl(image) == JpegUrlHead \o image

\* f"Extract driver's license information from this text:\n\n{extracted_text}"
Step2UserContent_stripped(text) == Step2PromptHead \o Strip(text)

Step2UserContent(text) == Step2PromptHead \o text

\* the fixed list of suggestions of the no-license response
Suggestions ==
    << "Make sure your driver's license is visible in the image",
       "Ensure good lighting with minimal glare",
       "Hold the license parallel to the camera",
       "Use a contrasting background" >>

\* the key of the fallback field, "Raw Extracted Text"
RawTextKey ==
    <<"R", "a", "w", " ", "E", "x", "t", "r", "a", "c", "t", "e", "d", " ",
      "T", "e", "x", "t">>

(***************************************************************************)
(* Responses.  jsonify(...) without a status is an HTTP 200 response.      *)
(***************************************************************************)
Jsonify(body) == [code |-> 200, json |-> body]

NoJsonResponse ==
    Jsonify([status |-> "error", message |-> <<"No JSON data provided">>])

NoImageResponse ==
    Jsonify([status |-> "error", message |-> <<"No image data provided">>])

NoLicenseResponse ==
    Jsonify([status |-> "error",
             message |-> <<"Could not clearly detect a driver's license in the image">>,
             analysis |-> [license_detected |-> FALSE],
             suggestions |-> Suggestions])

Step1ErrorResponse(e) ==
    Jsonify([status |-> "error",
             message |-> <<"OpenAI text extraction failed: ", e>>])

Step2ErrorResponse_noRawText(e, text) ==
    Jsonify([status |-> "error",
             message |-> <<"OpenAI license info extraction failed: ", e>>])

Step2ErrorResponse(e, text) ==
    Jsonify([status |-> "error",
             message |-> <<"OpenAI license info extraction failed: ", e>>,
             raw_text |-> text])

\* the three durations are measured values; only their presence is modelled
SuccessResponse(data, text, info) ==
    Jsonify([status |-> "success",
             data |-> data,
             raw_text |-> text,
             license_info |-> info,
             processing_time |-> [extraction_time |-> "s",
                                  license_processing_time |-> "s",
                                  total_time |-> "s"]])

\* an exception that leaves the handler: the framework answers 500
ServerErrorResponse_escapes(e) == [code |-> 500, html |-> e]

\* the outermost except clause
ServerErrorResponse(e) ==
    Jsonify([status |-> "error", message |-> <<"Server error: ", e>>])

(***************************************************************************)
(* What a segment of the handler ends with: a response, or a remote call.  *)
(***************************************************************************)
Respond(r) == [kind |-> "respond", response |-> r]

Call(n, input) == [kind |-> "call", step |-> n, input |-> input]

(***************************************************************************)
(* Request validation and image preparation (up to the Step 1 call).       *)
(***************************************************************************)
\* image_data.split(',')[1] when the image starts with "data:image";
\* the subscript raises IndexError when the string holds no comma
RemoveDataUrlPrefix(s) ==
    IF StartsWith(s, DataImagePrefix)
    THEN LET parts == Split(s, ",")
         IN  IF Len(parts) >= 2
             THEN [ok |-> TRUE, s |-> parts[2]]
             ELSE [ok |-> FALSE, e |-> "IndexError"]
    ELSE [ok |-> TRUE, s |-> s]

\* from image_data = data['image'] to the Step 1 call; an exception is
\* caught by the outermost except clause
PrepareImage(image, force) ==
    IF image.t \notin {"str", "list", "dict"}
    THEN \* len(image_data)
         [k |-> Respond(ServerErrorResponse("TypeError")),
          image_data |-> image, force_extraction |-> Unset]
    ELSE IF image.t # "str"
    THEN \* image_data.startswith
         [k |-> Respond(ServerErrorResponse("AttributeError")),
          image_data |-> image, force_extraction |-> Unset]
    ELSE LET r == RemoveDataUrlPrefix(image.s)
         IN  IF r.ok
             THEN [k |-> Call(1, Step1ImageUrl(r.s)),
                   image_data |-> PyStr(r.s), force_extraction |-> force]
             ELSE [k |-> Respond(ServerErrorResponse(r.e)),
                   image_data |-> image, force_extraction |-> Unset]

\* the checks on the request body that end the request before the image
\* is read; NotRejected when the body passes them
NotRejected == [kind |-> "pass"]

CheckBody(req) ==
    IF req.parse # "ok"
    THEN \* request.json raises
         Respond(ServerErrorResponse(req.parse))
    ELSE IF ~Truthy(req.value)
    THEN Respond(NoJsonResponse)
    ELSE IF req.value.t # "dict"
    THEN \* data.keys()
         Respond(ServerErrorResponse("AttributeError"))
    ELSE IF "image" \notin DOMAIN req.value.d
    THEN Respond(NoImageResponse)
    ELSE NotRejected

\* variant: a missing image key is read as an empty image
Validate_defaultImage(req) ==
    IF /\ req.parse = "ok"
       /\ req.value.t = "dict"
       /\ "image" \notin DOMAIN req.value.d
    THEN PrepareImage(PyStr(<<>>), Get(req.value.d, "force_extraction", PyBool(FALSE)))
    ELSE IF CheckBody(req) = NotRejected
    THEN PrepareImage(req.value.d["image"],
                      Get(req.value.d, "force_extraction", PyBool(FALSE)))
    ELSE [k |-> CheckBody(req), image_data |-> Unset, force_extraction |-> Unset]

Validate(req) ==
    IF CheckBody(req) = NotRejected
    THEN PrepareImage(req.value.d["image"],
                      Get(req.value.d, "force_extraction", PyBool(FALSE)))
    ELSE [k |-> CheckBody(req), image_data |-> Unset, force_extraction |-> Unset]

(***************************************************************************)
(* Parsing of the Step 2 output into the field mapping.                    *)
(***************************************************************************)
EmptyDict == [x \in {} |-> PyNone]

\* formatted_data[key] = value
Put(d, key, value) ==
    [x \in DOMAIN d \cup {key} |-> IF x = key THEN value ELSE d[x]]

\* variant: an empty value is stored as null
ParseLine_emptyAsNull(line) ==
    LET parts == SplitOnce(line, ":")
    IN  <<Strip(parts[1]),
          IF Strip(parts[2]) = <<>> THEN PyNone ELSE PyStr(Strip(parts[2]))>>

\* the body of the loop for a line that holds a colon: <<key, value>>
ParseLine(line) ==
    LET parts == SplitOnce(line, ":")
    IN  <<Strip(parts[1]), PyStr(Strip(parts[2]))>>

\* for line in lines: if ':' in line: ...
RECURSIVE ParseLines(_, _)
ParseLines(lines, acc) ==
    IF lines = <<>> THEN acc
    ELSE IF ":" \in Chars(Head(lines))
    THEN ParseLines(Tail(lines),
                    Put(acc, ParseLine(Head(lines))[1], ParseLine(Head(lines))[2]))
    ELSE ParseLines(Tail(lines), acc)

\* variant: no fallback when no field was found
FormattedData_noFallback(info, text) == ParseLines(Split(info, "\n"), EmptyDict)

\* formatted_data as returned: the parsed fields, or the fallback field
FormattedData(info, text) ==
    LET parsed == ParseLines(Split(info, "\n"), EmptyDict)
    IN  IF ~Truthy(PyDict(parsed)) THEN (RawTextKey :> text) ELSE parsed

(***************************************************************************)
(* The segments of the handler that follow a remote call.                  *)
(***************************************************************************)
\* variant: the sentinel is compared without trimming
NoLicenseDetected_noStrip(text, force) == text = Sentinel /\ ~Truthy(force)

\* extracted_text.strip() == "NO_LICENSE_DETECTED" and not force_extraction
NoLicenseDetected(text, force) == Strip(text) = Sentinel /\ ~Truthy(force)

\* after the Step 1 call returned `content`
AfterStep1(content, force) ==
    IF content.t # "str"
    THEN \* len(extracted_text) raises inside the try block
         Respond(Step1ErrorResponse("TypeError"))
    ELSE IF NoLicenseDetected(content.s, force)
    THEN Respond(NoLicenseResponse)
    ELSE Call(2, Step2UserContent(content.s))

\* variant: the failure is swallowed and the handler goes on with no text
OnStep1Failure_goesOn(e) == Call(2, Step2UserContent(<<>>))

\* the except clause of the Step 1 call
OnStep1Failure(e) == Respond(Step1ErrorResponse(e))

\* after the Step 2 call returned `content`; text is extracted_text
AfterStep2(content, text) ==
    IF content.t # "str"
    THEN \* len(license_info) raises inside the try block
         Respond(Step2ErrorResponse("TypeError", text))
    ELSE Respond(SuccessResponse(FormattedData(content.s, text), text, content))

\* the except clause of the Step 2 call
OnStep2Failure(e, text) == Respond(Step2ErrorResponse(e, text))

(***************************************************************************)
(* The inputs: request bodies and what the remote service answers.         *)
(***************************************************************************)
\* every string over alphabet A of length at most n
StringsUpTo(A, n) == UNION {[1..m -> A] : m \in 0..n}

\* image strings: with and without the data-URL marker, with and without commas
Tails == StringsUpTo({"A", ","}, MaxTail)

ImageStrings == Tails \cup {DataImagePrefix \o t : t \in Tails}

ImageValues == {PyStr(s) : s \in ImageStrings} \cup {PyNum(5), PyList(<<>>)}

ForceValues == {PyBool(TRUE), PyBool(FALSE)}

Absent == [t |-> "absent"]

\* the JSON object holding the given image and force_extraction, if any
DictOf(image, force) ==
    PyDict([key \in (IF image = Absent THEN {} ELSE {"image"})
                    \cup (IF force = Absent THEN {} ELSE {"force_extraction"})
            |-> IF key = "image" THEN image ELSE force])

Parsed(v) == [parse |-> "ok", value |-> v]

\* a body that is missing or is not JSON: request.json raises
Unparsable == {[parse |-> e, value |-> PyNone] : e \in {"BadRequest", "UnsupportedMediaType"}}

\* JSON bodies that are not objects
NonObjects == {Parsed(v) : v \in {PyNone, PyNum(0), PyNum(5), PyStr(<<>>), PyStr(<<"A">>),
                                  PyList(<<>>), PyList(<<"image">>), PyBool(TRUE)}}

Requests ==
    Unparsable \cup NonObjects
    \cup {Parsed(DictOf(i, f)) : i \in ImageValues \cup {Absent},
                                 f \in ForceValues \cup {Absent}}

\* the requests of the parsing model
SampleRequests == {Parsed(DictOf(PyStr(<<"A">>), Absent))}

\* what the Step 1 call may return as text
Step1Texts ==
    { <<>>, <<"A">>, <<" ", "A", "\n">>, <<"k", ":", "A">>,
      Sentinel, <<" ">> \o Sentinel \o <<"\n">>, Sentinel \o <<"A">>,
      SubSeq(Sentinel, 1, Len(Sentinel) - 1) }

\* the Step 1 texts of the parsing model
SampleTexts == {<<>>, <<"A">>}

\* what the Step 2 call may return as text, up to length n
InfoTexts(n) == StringsUpTo({"k", ":", " ", "\n"}, n)

\* the exceptions the remote client raises
RemoteErrors == {"APIConnectionError", "RateLimitError"}

(***************************************************************************)
(* The record of the remote calls, as a test double keeps it.              *)
(***************************************************************************)
Pending == [kind |-> "pending"]
Raised(e) == [kind |-> "raised", e |-> e]
Returned(c) == [kind |-> "returned", content |-> c]

\* the last call issued gets its result
Settle(result) == [calls EXCEPT ![Len(calls)].result = result]

\* a segment of the handler ends: it responds, or it issues a remote call
Finish(k, log) ==
    IF k.kind = "respond"
    THEN /\ responses' = Append(responses, k.response)
         /\ calls' = log
         /\ pc' = "done"
    ELSE /\ calls' = Append(log, [step |-> k.step, input |-> k.input, result |-> Pending])
         /\ pc' = IF k.step = 1 THEN "step1" ELSE "step2"
         /\ UNCHANGED responses

(***************************************************************************)
(* The state machine.                                                      *)
(***************************************************************************)
InitWith(requests) ==
    /\ pc = "received"
    /\ request \in requests
    /\ image_data = Unset
    /\ force_extraction = Unset
    /\ extracted_text = Unset
    /\ license_info = Unset
    /\ calls = <<>>
    /\ responses = <<>>

\* the request arrives: validation, image preparation, the Step 1 call
ReceiveRequest ==
    /\ pc = "received"
    /\ image_data' = Validate(request).image_data
    /\ force_extraction' = Validate(request).force_extraction
    /\ Finish(Validate(request).k, calls)
    /\ UNCHANGED <<request, extracted_text, license_info>>

\* the Step 1 call raises
Step1Raises ==
    /\ pc = "step1"
    /\ \E e \in RemoteErrors : Finish(OnStep1Failure(e), Settle(Raised(e)))
    /\ UNCHANGED <<request, image_data, force_extraction, extracted_text, license_info>>

\* the Step 1 call returns: the sentinel check, then the Step 2 call
Step1Returns(texts) ==
    /\ pc = "step1"
    /\ \E content \in {PyNone} \cup {PyStr(t) : t \in texts} :
          /\ extracted_text' = content
          /\ Finish(AfterStep1(content, force_extraction), Settle(Returned(content)))
    /\ UNCHANGED <<request, image_data, force_extraction, license_info>>

\* the Step 2 call raises
Step2Raises ==
    /\ pc = "step2"
    /\ \E e \in RemoteErrors :
          Finish(OnStep2Failure(e, extracted_text), Settle(Raised(e)))
    /\ UNCHANGED <<request, image_data, force_extraction, extracted_text, license_info>>

\* the Step 2 call returns: parsing, the success response
Step2Returns(texts) ==
    /\ pc = "step2"
    /\ \E content \in {PyNone} \cup {PyStr(t) : t \in texts} :
          /\ license_info' = content
          /\ Finish(AfterStep2(content, extracted_text), Settle(Returned(content)))
    /\ UNCHANGED <<request, image_data, force_extraction, extracted_text>>

\* every request, every Step 1 answer, short Step 2 answers
Init == InitWith(Requests)

Next ==
    \/ ReceiveRequest
    \/ Step1Raises
    \/ Step1Returns(Step1Texts)
    \/ Step2Raises
    \/ Step2Returns(InfoTexts(MaxSampleLen))

Spec == Init /\ [][Next]_vars

\* one well-formed request, every Step 2 answer up to MaxInfoLen
InitParse == InitWith(SampleRequests)

NextParse ==
    \/ ReceiveRequest
    \/ Step1Raises
    \/ Step1Returns(SampleTexts)
    \/ Step2Raises
    \/ Step2Returns(InfoTexts(MaxInfoLen))

SpecParse == InitParse /\ [][NextParse]_vars

(***************************************************************************)
(* Vocabulary of the properties.  These definitions state what the         *)
(* documentation says, independently of the functions of the handler.      *)
(***************************************************************************)
Responded == pc = "done" /\ Len(responses) = 1

TheBody == responses[1].json

Succeeded == Responded /\ responses[1].code = 200 /\ TheBody.status = "success"

Failed == Responded /\ responses[1].code = 200 /\ TheBody.status = "error"

\* the request carries a JSON object
IsObject == request.parse = "ok" /\ request.value.t = "dict"

\* the body is missing, is not usable as JSON data, or lacks the image key
LacksImage == ~IsObject \/ "image" \notin DOMAIN request.value.d

ForceTrue ==
    /\ IsObject
    /\ "force_extraction" \in DOMAIN request.value.d
    /\ request.value.d["force_extraction"] = PyBool(TRUE)

\* the steps of the calls issued so far
StepCalls(n) == {i \in DOMAIN calls : calls[i].step = n}

\* the Step 1 call has returned a text
Step1Succeeded ==
    /\ Len(calls) >= 1
    /\ calls[1].step = 1
    /\ calls[1].result.kind = "returned"
    /\ calls[1].result.content.t = "str"

Step1Text == calls[1].result.content.s

\* the Step 2 call has returned a text
Step2Succeeded ==
    /\ Len(calls) >= 2
    /\ calls[2].step = 2
    /\ calls[2].result.kind = "returned"
    /\ calls[2].result.content.t = "str"

Step2Text == calls[2].result.content.s

Blank(c) == c = " " \/ c = "\n" \/ c = "\t" \/ c = "\r"

\* s without its leading and trailing whitespace
Trimmed(s) ==
    IF \A i \in 1..Len(s) : Blank(s[i]) THEN <<>>
    ELSE LET first == CHOOSE i \in 1..Len(s) :
                         ~Blank(s[i]) /\ \A j \in 1..(i - 1) : Blank(s[j])
             last  == CHOOSE i \in 1..Len(s) :
                         ~Blank(s[i]) /\ \A j \in (i + 1)..Len(s) : Blank(s[j])
         IN  SubSeq(s, first, last)

Holds(s, c) == \E i \in 1..Len(s) : s[i] = c

FirstIndex(s, c) == CHOOSE i \in 1..Len(s) : s[i] = c /\ \A j \in 1..(i - 1) : s[j] # c

\* what follows the first occurrence of c in s
AfterFirst(s, c) == SubSeq(s, FirstIndex(s, c) + 1, Len(s))

\* what precedes the first occurrence of c in s
BeforeFirst(s, c) == SubSeq(s, 1, FirstIndex(s, c) - 1)

\* the lines of t, each as the pair of positions that delimit it
LineBreaks(t) == {0, Len(t) + 1} \cup {i \in 1..Len(t) : t[i] = "\n"}

LinesOf(t) ==
    {p \in LineBreaks(t) \X LineBreaks(t) :
        p[1] < p[2] /\ \A b \in LineBreaks(t) : ~(p[1] < b /\ b < p[2])}

LineAt(t, p) == SubSeq(t, p[1] + 1, p[2] - 1)

\* the lines of t that hold a colon
FieldLines(t) == {p \in LinesOf(t) : Holds(LineAt(t, p), ":")}

KeyOf(t, p) == Trimmed(BeforeFirst(LineAt(t, p), ":"))

ValueOf(t, p) == Trimmed(AfterFirst(LineAt(t, p), ":"))

\* the last line of t that carries key
LastLineOf(t, key) ==
    CHOOSE p \in FieldLines(t) :
        /\ KeyOf(t, p) = key
        /\ \A q \in FieldLines(t) : KeyOf(t, q) = key => q[1] <= p[1]

\* data is the mapping of the documentation for text t
IsMappingOf(data, t) ==
    /\ DOMAIN data = {KeyOf(t, p) : p \in FieldLines(t)}
    /\ \A key \in DOMAIN data : data[key] = PyStr(ValueOf(t, LastLineOf(t, key)))

(***************************************************************************)
(* The properties.                                                         *)
(***************************************************************************)
\* C1: a request whose body is missing, is not usable as JSON data, or lacks
\* the image key gets a status "error" response, and neither remote call is
\* ever issued for it.
C1_NoImageNoRemoteCall ==
    LacksImage =>
        /\ calls = <<>>
        /\ pc \in {"received", "done"}
        /\ pc = "done" => Failed

\* C1 witness: a JSON object that holds force_extraction but no image was answered
C1_Witness ==
    /\ IsObject
    /\ DOMAIN request.value.d = {"force_extraction"}
    /\ Failed
    /\ calls = <<>>

\* C2: when Step 1 returns a text that is the sentinel after trimming and
\* force_extraction is unset or false, the response has status "error",
\* analysis.license_detected = false and exactly 4 suggestions, and the
\* Step 2 call is never issued.
C2_SentinelShortCircuits ==
    (Step1Succeeded /\ Trimmed(Step1Text) = Sentinel /\ ~ForceTrue) =>
        /\ Failed
        /\ "analysis" \in DOMAIN TheBody
        /\ TheBody.analysis.license_detected = FALSE
        /\ "suggestions" \in DOMAIN TheBody
        /\ Len(TheBody.suggestions) = 4
        /\ StepCalls(2) = {}

\* C2 witness: the sentinel came back surrounded by whitespace, force unset
C2_Witness ==
    /\ Step1Succeeded
    /\ Step1Text # Sentinel
    /\ Trimmed(Step1Text) = Sentinel
    /\ IsObject
    /\ "force_extraction" \notin DOMAIN request.value.d
    /\ Failed

\* C3: when Step 1 returns a text and it is not the case that the trimmed
\* text is the sentinel with force_extraction false, the Step 2 call is issued
\* exactly once and its input is the Step 1 text verbatim.
C3_Step2GetsTextVerbatim ==
    (Step1Succeeded /\ ~(Trimmed(Step1Text) = Sentinel /\ ~ForceTrue)) =>
        /\ Cardinality(StepCalls(2)) = 1
        /\ Len(calls) = 2
        /\ calls[2].step = 2
        /\ calls[2].input = Step2PromptHead \o Step1Text

\* C3 witness: the padded sentinel with force_extraction true went to Step 2
C3_Witness ==
    /\ Step1Succeeded
    /\ Step1Text # Sentinel
    /\ Trimmed(Step1Text) = Sentinel
    /\ ForceTrue
    /\ StepCalls(2) # {}

\* C4: when the Step 2 call raises after Step 1 succeeded, the response has
\* status "error" and its raw_text is exactly the Step 1 text; when the
\* Step 1 call raises, the error response carries no raw_text.
C4_RawTextOnlyAfterStep1 ==
    /\ (Step1Succeeded /\ Len(calls) = 2 /\ calls[2].result.kind = "raised") =>
          /\ Failed
          /\ "raw_text" \in DOMAIN TheBody
          /\ TheBody.raw_text = PyStr(Step1Text)
    /\ (Len(calls) >= 1 /\ calls[1].result.kind = "raised") =>
          /\ Failed
          /\ "raw_text" \notin DOMAIN TheBody

\* C4 witness: Step 2 raised on a Step 1 text that has surrounding whitespace
C4_Witness ==
    /\ Step1Succeeded
    /\ Step1Text = <<" ", "A", "\n">>
    /\ Len(calls) = 2
    /\ calls[2].result.kind = "raised"
    /\ Responded

\* C5: every request ends with exactly one HTTP 200 JSON response whose status
\* is "success" or "error"; an exception raised anywhere in the handler
\* becomes a status "error" response with a message, and the handler is never
\* left without a way to its response.
C5_AlwaysOneJsonResponse ==
    /\ Len(responses) <= 1
    /\ (pc = "done") <=> (Len(responses) = 1)
    /\ \A i \in DOMAIN responses :
          /\ responses[i].code = 200
          /\ responses[i].json.status \in {"success", "error"}
          /\ responses[i].json.status = "error" => "message" \in DOMAIN responses[i].json
    /\ pc # "done" => ENABLED Next

\* C5 witness: the IndexError of the prefix removal was answered as an error
C5_Witness ==
    /\ Failed
    /\ TheBody.message = <<"Server error: ", "IndexError">>

\* the image string of the request
ImageString == request.value.d["image"].s

\* C6: an image string that begins with data:image is sent to Step 1 without
\* the prefix up to and including its first comma, everything after that
\* comma kept; any other image string is sent unchanged.
C6_PrefixUpToFirstCommaRemoved ==
    (/\ IsObject
     /\ "image" \in DOMAIN request.value.d
     /\ request.value.d["image"].t = "str"
     /\ Len(calls) >= 1) =>
        calls[1].input =
            JpegUrlHead \o (IF StartsWith(ImageString, DataImagePrefix)
                            THEN AfterFirst(ImageString, ",")
                            ELSE ImageString)

\* C7 as stated: for every Step 2 output, the field mapping of the success
\* response is exactly: split into lines, split each line that holds a colon
\* on its first colon into key and value, trim both, drop the other lines,
\* keep the value of the last line of each key.
C7_MappingIsParseOfEveryText ==
    Succeeded => IsMappingOf(TheBody.data, Step2Text)

\* C7 as amended: the same, for every Step 2 output of which at least one
\* line holds a colon.
C7_MappingIsParseWhenSomeField ==
    (Succeeded /\ FieldLines(Step2Text) # {}) => IsMappingOf(TheBody.data, Step2Text)

\* C7 witness: a success whose Step 2 output carries one key on two lines with
\* different values, and a value that holds a colon itself
C7_Witness ==
    /\ Succeeded
    /\ \E p, q \in FieldLines(Step2Text) :
          /\ p[1] < q[1]
          /\ KeyOf(Step2Text, p) # <<>>
          /\ KeyOf(Step2Text, p) = KeyOf(Step2Text, q)
          /\ ValueOf(Step2Text, p) # ValueOf(Step2Text, q)
          /\ Holds(ValueOf(Step2Text, p), ":")

\* C8 as stated: in every success response no key of the field mapping maps
\* to null or to the empty string.
C8_NoNullNoEmptyValue ==
    Succeeded =>
        \A key \in DOMAIN TheBody.data :
            TheBody.data[key] # PyNone /\ TheBody.data[key] # PyStr(<<>>)

\* C8 as amended: in every success response every value of the field mapping
\* is a string, never null; a value is the empty string only where a line
\* carrying its key has nothing but whitespace after its first colon, or in
\* the fallback entry when the Step 1 text is empty.
C8_NoNullEmptyOnlyFromBlank ==
    Succeeded =>
        \A key \in DOMAIN TheBody.data :
            /\ TheBody.data[key].t = "str"
            /\ TheBody.data[key].s = <<>> =>
                  \/ \E p \in FieldLines(Step2Text) :
                        KeyOf(Step2Text, p) = key /\ ValueOf(Step2Text, p) = <<>>
                  \/ /\ FieldLines(Step2Text) = {}
                     /\ key = RawTextKey
                     /\ Step1Text = <<>>

\* C8 witness: a success where a key whose line ends in blanks after the colon
\* maps to the empty string
C8_Witness ==
    /\ Succeeded
    /\ \E p \in FieldLines(Step2Text) :
          /\ AfterFirst(LineAt(Step2Text, p), ":") # <<>>
          /\ KeyOf(Step2Text, p) # <<>>
          /\ TheBody.data[KeyOf(Step2Text, p)] = PyStr(<<>>)

\* C9: when no line of the Step 2 output holds a colon, the response still has
\* status "success" and its field mapping is the single entry
\* "Raw Extracted Text" mapped to the Step 1 text; the field mapping of every
\* success response is non-empty.
C9_FallbackToRawText ==
    /\ (Step2Succeeded /\ ~Holds(Step2Text, ":")) =>
          /\ Succeeded
          /\ DOMAIN TheBody.data = {RawTextKey}
          /\ TheBody.data[RawTextKey] = PyStr(Step1Text)
    /\ Succeeded => DOMAIN TheBody.data # {}

\* C9 witness: a success with the fallback entry holding a non-empty Step 1
\* text, after a Step 2 output of several lines
C9_Witness ==
    /\ Succeeded
    /\ Holds(Step2Text, "\n")
    /\ ~Holds(Step2Text, ":")
    /\ Step1Text # <<>>
    /\ TheBody.data[RawTextKey] = PyStr(Step1Text)

\* C10: within one request there is at most one Step 1 call and at most one
\* Step 2 call, the Step 2 call is issued only after the Step 1 call returned
\* a text, and a call that failed is the last call of the request, followed at
\* once by the error response.
C10_SequentialNoRetry ==
    /\ Len(calls) <= 2
    /\ Cardinality(StepCalls(1)) <= 1
    /\ Cardinality(StepCalls(2)) <= 1
    /\ \A i \in StepCalls(2) :
          /\ i = 2
          /\ Step1Succeeded
    /\ \A i \in DOMAIN calls :
          calls[i].result.kind = "raised" =>
              /\ i = Len(calls)
              /\ Failed

\* C10 witness: the Step 1 call raised and the request ended with that one call
C10_Witness ==
    /\ Len(calls) = 1
    /\ calls[1].result.kind = "raised"
    /\ Failed

====
